---- MODULE Spec2Model ----
(***************************************************************************)
(* Transfer pipeline of dserver-client-js: parallelLimit, withRetry,       *)
(* isExpired and timeUntilExpiry (README.md, the utils source), and        *)
(* DServerClient.request, .searchDatasets, .createDataset and              *)
(* .downloadItem (src/client.ts).                                          *)
(*                                                                         *)
(* One step of the model is one turn of the JavaScript event loop seen     *)
(* from the promise that is resumed: the synchronous run of the            *)
(* parallelLimit loop up to its next await, the start of one queued        *)
(* worker, the arrival of one response, one abort() of the caller's        *)
(* AbortController.  Workers queued by Promise.resolve().then(...) start   *)
(* before anything else happens (microtasks run before the next task).     *)
(* The resumption of an awaiting function is a step of its own, so that a  *)
(* response or an abort() may come between a worker's return and the       *)
(* resumption of parallelLimit or createDataset: this covers an abort()    *)
(* called from inside the onProgress callback.                             *)
(*                                                                         *)
(* fetch is the Fetch standard's: called with an aborted signal it rejects *)
(* with an AbortError and sends nothing; abort() rejects a fetch in flight *)
(* and errors a body being read, both with an AbortError; a response body  *)
(* is a stream that json() or text() reads once.                           *)
(***************************************************************************)
EXTENDS Integers, Sequences, FiniteSets, TLC

\* ---------------------------------------------------------------- bounds
MaxItems == 5
MaxLimit == 3
MaxFiles == 5
MaxSize == 1
MaxMissing == 1
MaxChunks == 3
MaxChunkLen == 2
MaxHalfSeconds == 2
MaxRetries == 2
MaxDelay == 3
MaxFactor == 2
MaxClockHalfSeconds == 5
MaxOverlap == 2

\* ------------------------------------------------------ program constants
\* createDataset: parallelLimit(itemsWithMetadata, 4, ...)
UploadLimit == 4

\* what fn may resolve with
Values == {"v1", "v2"}

\* response statuses of the dserver API and of the signed-URL store
Statuses == {200, 401, 403, 404, 500}
PutStatuses == {200, 403}

\* values of the Content-Length response header: a number of bytes, or
\* NoHeader (get returns null), or NotANumber (Number(...) is NaN)
NoHeader == 0 - 1
NotANumber == 0 - 2
Headers == {NoHeader, NotANumber, 0, 4}

VARIABLES
    \* ---- parallelLimit(items, limit, fn)
    nItems,      \* items.length
    limit,       \* limit
    plpc,        \* where the async function parallelLimit stands
    nextItem,    \* index of the next item the for loop takes
    task,        \* task[i]: state of fn(items[i]) and of its promise p
    executing,   \* the array executing, as the items whose e it holds
    results,     \* the array results, as the items whose p it holds
    val,         \* val[i]: the value fn(items[i]) resolved with
    out,         \* the array parallelLimit resolved with
    plerr,       \* the item whose rejection parallelLimit rejected with, or 0
    terr,        \* terr[i]: the error p of item i rejected with
    outOfOrder,  \* history: some worker settled while an earlier one was running
    \* ---- createDataset(baseUri, name, files, options)
    cdpc,        \* where the async function createDataset stands
    aborted,     \* options.signal.aborted
    hasUrl,      \* hasUrl[i]: upload_urls.items has an entry for item i
    readme,      \* the readme PUT
    putStatus,   \* putStatus[i]: status of the response to item i's PUT, or 0
    size,        \* size[i]: size_in_bytes of item i
    uploadedBytes, \* the local uploadedBytes
    cderr,       \* the error createDataset rejected with
    sent,        \* requests that reached the network, per kind
    puts,        \* puts[i]: PUT requests of item i that reached the network
    abortStage,  \* history: cdpc when abort() was called
    abortHit,    \* history: the item PUTs in flight when abort() was called
    putsAtAbort, \* history: puts when abort() was called
    putKey,      \* putKey[i]: the key of upload_urls.items item i's PUT URL was read from
    errItem,     \* errItem[i]: the item the message of item i's worker's error names, or 0
    errStatus,   \* errStatus[i]: the status that error carries, or 0
    cderrItem,   \* the item the message of createDataset's error names, or 0
    cderrStatus, \* the status createDataset's error carries, or 0
    md5Available, \* crypto.subtle.digest("MD5", ...) is supported
    hashAlg,     \* hashAlg[i]: the algorithm item i's hash was computed with
    declaredAlg, \* the algorithm the write-URL request declares the hashes to be of
    cdProgress,  \* the calls of options.onProgress, as <<uploaded, total, relpath>>
    \* ---- useDatasetUpload(client).uploadDataset, which calls createDataset
    phase,       \* progress.value.phase
    loading,     \* loading.value
    uiError,     \* error.value is set
    \* ---- downloadItem / downloadManifest / downloadAdminMetadata / downloadReadme
    dlop,        \* the download method that was called
    dlpc,        \* where that async method stands
    onProgress,  \* options.onProgress is given
    dlAborted,   \* options.signal.aborted
    dlN,         \* number of chunks the response body delivers
    dlRead,      \* chunks read from the body so far
    receivedLength, \* the local receivedLength (bytes read so far)
    contentLength,  \* the local contentLength
    progress,    \* the calls of options.onProgress, as <<loaded, total, identifier>>
    chunks,      \* the array chunks, as the lengths of the chunks it holds
    dlHeader,    \* the Content-Length header of the response
    dlId,        \* the argument identifier
    bufLen,      \* byteLength of the buffer the method resolved with
    dlerr,       \* the error the method rejected with
    dlStatus,    \* response.status, 0 before the response
    dlerrId,     \* the identifier the message of that error names, or "none"
    dlerrStatus, \* the status that error carries, or 0
    dlHasUrl,    \* the URL set has an entry for the identifier or name asked for
    dlNet,       \* requests that reached the network
    nowMs,       \* Date.now()
    expiryMs,    \* instant that urls.expiry_timestamp denotes, in ms
    abortMid,    \* history: abort() was called after k of n chunks, 0 < k < n
    readAtAbort, \* history: dlRead when abort() was called
    progAtAbort, \* history: Len(progress) when abort() was called
    \* ---- request(method, path, body) and searchDatasets(query, pagination)
    token,       \* this.token, "" when none is set
    rqop,        \* the API method that was called
    rqpc,        \* where that async method stands
    rqAuth,      \* the Authorization header of the request sent, "" when none
    rqStatus,    \* response.status, 0 before the response
    rqKind,      \* what the response body holds
    rqResult,    \* what the method resolved with
    rqerr,       \* the error the method rejected with
    rqUnhandled, \* the rejection of a promise nobody awaits
    rqNet,       \* requests that reached the network
    \* ---- withRetry(fn, options)
    maxRetries,    \* options.maxRetries
    initialDelay,  \* options.initialDelay
    maxDelay,      \* options.maxDelay
    backoffFactor, \* options.backoffFactor
    wrpc,          \* where the async function withRetry stands
    attempt,       \* the loop variable attempt
    currentDelay,  \* the local currentDelay
    lastError,     \* the local lastError
    invocations,   \* history: the number of times fn was invoked
    raised,        \* history: the errors fn rejected with, in order
    delays,        \* history: the arguments of delay(...), in order
    wrResult,      \* the value withRetry resolved with
    wrerr,         \* the error withRetry rejected with
    \* ---- isExpired(expiryTimestamp), timeUntilExpiry(expiryTimestamp)
    expiredOut,    \* what the last call of isExpired returned
    expiredAt,     \* Date.now() at that call, -1 before it
    remainingOut,  \* what the last call of timeUntilExpiry returned
    remainingAt,   \* Date.now() at that call, -1 before it
    \* ---- useDatasetDownload(client)
    udUrls,        \* urls.value is set
    udCalls,       \* udCalls[f]: the calls of function f that have not settled
    udLoading,     \* loading.value
    udError,       \* error.value is set
    \* ---- fetches against signed URLs
    suOp,          \* the method whose fetch went out last, "none" before
    suAuth         \* the Authorization header of that fetch, "" when none

plVars == <<nItems, limit, plpc, nextItem, task, executing, results, val, out,
            plerr, terr, outOfOrder>>
cdVars == <<cdpc, aborted, hasUrl, readme, putStatus, size, uploadedBytes, cderr, sent, puts,
            abortStage, abortHit, putsAtAbort>>
dlErrVars == <<dlStatus, dlerrId, dlerrStatus, dlHasUrl>>
dlVars == <<dlop, dlpc, onProgress, dlAborted, dlN, dlRead, receivedLength,
            contentLength, progress, chunks, dlHeader, dlId, bufLen, dlerr, dlNet,
            nowMs, expiryMs, abortMid, readAtAbort, progAtAbort, dlErrVars>>
rqVars == <<token, rqop, rqpc, rqAuth, rqStatus, rqKind, rqResult, rqerr,
            rqUnhandled, rqNet>>
wrVars == <<maxRetries, initialDelay, maxDelay, backoffFactor, wrpc, attempt,
            currentDelay, lastError, invocations, raised, delays, wrResult, wrerr>>
exVars == <<expiredOut, expiredAt, remainingOut, remainingAt>>
keyVars == <<putKey>>
errVars == <<errItem, errStatus, cderrItem, cderrStatus>>
hashVars == <<md5Available, hashAlg, declaredAlg>>
progVars == <<cdProgress>>
uiVars == <<phase, loading, uiError>>
cxVars == <<keyVars, errVars, hashVars, progVars, uiVars>>
udVars == <<udUrls, udCalls, udLoading, udError>>
suVars == <<suOp, suAuth>>
vars == <<plVars, cdVars, cxVars, dlVars, rqVars, wrVars, exVars, udVars, suVars>>

\* what each specification leaves alone
notPL == <<cdVars, cxVars, dlVars, rqVars, wrVars, exVars, udVars, suVars>>
notCD == <<dlVars, rqVars, wrVars, exVars, udVars, suVars>>
notDL == <<plVars, cdVars, cxVars, rqVars, wrVars, exVars, udVars, suVars>>
notSU == <<plVars, cdVars, cxVars, dlVars, wrVars, exVars, udVars>>
notRQ == <<notSU, suVars>>
notWR == <<plVars, cdVars, cxVars, dlVars, rqVars, exVars, udVars, suVars>>
notUD == <<plVars, cdVars, cxVars, dlVars, rqVars, wrVars, exVars, suVars>>

\* ----------------------------------------------------------------- helpers
Range(s) == {s[k] : k \in 1..Len(s)}

Min(S) == CHOOSE x \in S : \A y \in S : x <= y

\* executing.indexOf(e)
IndexOf(s, x) == Min({k \in 1..Len(s) : s[k] = x})

\* executing.splice(k, 1)
Splice(s, k) == [j \in 1..(Len(s) - 1) |-> IF j < k THEN s[j] ELSE s[j + 1]]

Items == 1..nItems

Settled(i) == task[i] \in {"ok", "failed"}

\* fn(items[i]) has been invoked and its promise has not settled
InFlight == {i \in Items : task[i] = "active"}

NoQueued == \A i \in Items : task[i] # "queued"

\* ------------------------------------------------------------ parallelLimit
\* if (limit <= items.length): only then are the e promises kept
Tracked_NeverTracks == FALSE

Tracked == limit <= nItems

\* if (executing.length >= limit) await Promise.race(executing)
MustWait_OffByOne(e) == Len(e) > limit

MustWait(e) == Len(e) >= limit

\* results.push(p): the promise of item i goes to the end of results
PushResult_Front(r, i) == <<i>> \o r

PushResult(r, i) == Append(r, i)

\* The for loop from the point it is (re)entered to its next await: each
\* iteration creates p (fn is queued as a microtask), pushes it, and when
\* tracked pushes e and awaits Promise.race(executing) once executing is
\* full; after the last item the function awaits Promise.all(results).
\* A race or an all over an already rejected promise rejects with the first
\* such promise of the array.
RECURSIVE LoopRun(_)
LoopRun(s) ==
    IF s.next > nItems
    THEN LET bad == {k \in 1..Len(s.results) : s.task[s.results[k]] = "failed"}
         IN  IF bad = {}
             THEN [s EXCEPT !.pc = "all"]
             ELSE [s EXCEPT !.pc = "allErr", !.err = s.results[Min(bad)]]
    ELSE LET i  == s.next
             s1 == [s EXCEPT !.next = i + 1,
                             !.task[i] = "queued",
                             !.results = PushResult(@, i)]
         IN  IF Tracked
             THEN LET s2  == [s1 EXCEPT !.executing = Append(@, i)]
                      bad == {k \in 1..Len(s2.executing) :
                                  s2.task[s2.executing[k]] = "failed"}
                  IN  IF MustWait(s2.executing)
                      THEN IF bad = {}
                           THEN [s2 EXCEPT !.pc = "race"]
                           ELSE [s2 EXCEPT !.pc = "raceErr",
                                           !.err = s2.executing[Min(bad)]]
                      ELSE LoopRun(s2)
             ELSE LoopRun(s1)

LoopState == [next |-> nextItem, task |-> task, results |-> results,
              executing |-> executing, pc |-> plpc, err |-> plerr]

\* The loop runs (first entry, or resumed after Promise.race fulfilled).
EnterLoop ==
    LET s == LoopRun(LoopState)
    IN  /\ nextItem' = s.next
        /\ task' = s.task
        /\ results' = s.results
        /\ executing' = s.executing
        /\ plpc' = s.pc
        /\ plerr' = s.err

\* e = p.then(() => executing.splice(executing.indexOf(e), 1)): the handler
\* runs only when p fulfils; a rejected p leaves e, rejected, in executing.
AfterSettle(e, i, ok) ==
    IF ok /\ i \in Range(e) THEN Splice(e, IndexOf(e, i)) ELSE e

\* What the settling of the promises of the items in S does to the awaiting
\* parallelLimit: a pending Promise.race(executing) settles with the first e
\* that settles, a pending Promise.all(results) rejects with the first p
\* that rejects.
PcAfterSettle(S, ok) ==
    CASE plpc = "race" /\ S \cap Range(executing) # {} -> IF ok THEN "raceOk" ELSE "raceErr"
      [] plpc = "all" /\ S # {} /\ ~ok                 -> "allErr"
      [] OTHER                                         -> plpc

ErrAfterSettle(S, ok) ==
    CASE plpc = "race" /\ S \cap Range(executing) # {} /\ ~ok -> Min(S \cap Range(executing))
      [] plpc = "all" /\ S # {} /\ ~ok                        -> Min(S)
      [] OTHER                                                -> plerr

\* p of item i settles: fn's promise fulfilled with v, or rejected with err.
SettleTask(i, ok, v, err) ==
    /\ task' = [task EXCEPT ![i] = IF ok THEN "ok" ELSE "failed"]
    /\ val' = [val EXCEPT ![i] = IF ok THEN v ELSE @]
    /\ terr' = [terr EXCEPT ![i] = IF ok THEN @ ELSE err]
    /\ executing' = AfterSettle(executing, i, ok)
    /\ plpc' = PcAfterSettle({i}, ok)
    /\ plerr' = ErrAfterSettle({i}, ok)
    /\ outOfOrder' = (outOfOrder \/ \E j \in Items : j < i /\ task[j] = "active")

\* await Promise.race(executing) fulfilled: the for loop goes on.
RaceResume ==
    /\ plpc = "raceOk"
    /\ NoQueued
    /\ EnterLoop
    /\ UNCHANGED <<nItems, limit, val, out, terr, outOfOrder>>

\* await Promise.race(executing) rejected: parallelLimit throws out of the loop.
RaceThrow ==
    /\ plpc = "raceErr"
    /\ NoQueued
    /\ plpc' = "rejected"
    /\ UNCHANGED <<nItems, limit, nextItem, task, executing, results, val, out,
                   plerr, terr, outOfOrder>>

\* return Promise.all(results), every p fulfilled: the values in results order.
AllValues(r) == [k \in 1..Len(r) |-> val[r[k]]]

AllResolve ==
    /\ plpc = "all"
    /\ \A i \in Items : task[i] = "ok"
    /\ plpc' = "resolved"
    /\ out' = AllValues(results)
    /\ UNCHANGED <<nItems, limit, nextItem, task, executing, results, val,
                   plerr, terr, outOfOrder>>

\* return Promise.all(results), some p rejected.
AllReject ==
    /\ plpc = "allErr"
    /\ NoQueued
    /\ plpc' = "rejected"
    /\ UNCHANGED <<nItems, limit, nextItem, task, executing, results, val, out,
                   plerr, terr, outOfOrder>>

\* ------------------------------------------- parallelLimit, any worker fn
\* Promise.resolve().then(() => fn(item)): the queued workers start in the
\* order they were queued.
Start(i) ==
    /\ task[i] = "queued"
    /\ \A j \in Items : j < i => task[j] # "queued"
    /\ task' = [task EXCEPT ![i] = "active"]
    /\ UNCHANGED <<nItems, limit, plpc, nextItem, executing, results, val, out,
                   plerr, terr, outOfOrder>>

\* fn(items[i]) resolves with v or rejects.
Settle(i, ok, v) ==
    /\ task[i] = "active"
    /\ NoQueued
    /\ SettleTask(i, ok, v, "Error")
    /\ UNCHANGED <<nItems, limit, nextItem, results, out>>

\* parallelLimit(items, limit, fn) is called.
Call ==
    /\ plpc = "idle"
    /\ EnterLoop
    /\ UNCHANGED <<nItems, limit, val, out, terr, outOfOrder>>

InitTasks ==
    /\ plpc = "idle"
    /\ nextItem = 1
    /\ task = [i \in 1..nItems |-> "new"]
    /\ executing = <<>>
    /\ results = <<>>
    /\ val = [i \in 1..nItems |-> "none"]
    /\ out = <<>>
    /\ plerr = 0
    /\ terr = [i \in 1..nItems |-> "none"]
    /\ outOfOrder = FALSE

NoUpload ==
    /\ cdpc = "none"
    /\ aborted = FALSE
    /\ hasUrl = <<>>
    /\ readme = "none"
    /\ putStatus = <<>>
    /\ size = <<>>
    /\ uploadedBytes = 0
    /\ cderr = "none"
    /\ sent = [urls |-> 0, readme |-> 0, complete |-> 0]
    /\ puts = <<>>
    /\ abortStage = "none"
    /\ abortHit = {}
    /\ putsAtAbort = <<>>
    /\ putKey = <<>>
    /\ errItem = <<>>
    /\ errStatus = <<>>
    /\ cderrItem = 0
    /\ cderrStatus = 0
    /\ md5Available = FALSE
    /\ hashAlg = <<>>
    /\ declaredAlg = "none"
    /\ cdProgress = <<>>
    /\ phase = "preparing"
    /\ loading = FALSE
    /\ uiError = FALSE

NoDownload ==
    /\ dlop = "none"
    /\ dlpc = "none"
    /\ onProgress = FALSE
    /\ dlAborted = FALSE
    /\ dlN = 0
    /\ dlRead = 0
    /\ receivedLength = 0
    /\ contentLength = 0
    /\ progress = <<>>
    /\ chunks = <<>>
    /\ dlHeader = NoHeader
    /\ dlId = "none"
    /\ bufLen = 0
    /\ dlerr = "none"
    /\ dlStatus = 0
    /\ dlerrId = "none"
    /\ dlerrStatus = 0
    /\ dlHasUrl = TRUE
    /\ dlNet = 0
    /\ nowMs = 0
    /\ expiryMs = 0
    /\ abortMid = FALSE
    /\ readAtAbort = 0
    /\ progAtAbort = 0

\* an error object: its name, its status and its body
NoError == [name |-> "none", status |-> 0, body |-> "none"]

NoRequest ==
    /\ token = ""
    /\ rqop = "none"
    /\ rqpc = "none"
    /\ rqAuth = ""
    /\ rqStatus = 0
    /\ rqKind = "none"
    /\ rqResult = "none"
    /\ rqerr = NoError
    /\ rqUnhandled = NoError
    /\ rqNet = 0

NoRetry ==
    /\ maxRetries = 0
    /\ initialDelay = 0
    /\ maxDelay = 0
    /\ backoffFactor = 0
    /\ wrpc = "none"
    /\ attempt = 0
    /\ currentDelay = 0
    /\ lastError = "undefined"
    /\ invocations = 0
    /\ raised = <<>>
    /\ delays = <<>>
    /\ wrResult = "none"
    /\ wrerr = "none"

NoExpiryCall ==
    /\ expiredOut = FALSE
    /\ expiredAt = 0 - 1
    /\ remainingOut = 0
    /\ remainingAt = 0 - 1

\* the functions of useDatasetDownload that set loading
LoadFunctions == {"loadDataset", "loadManifest", "loadAdminMetadata", "loadReadme",
                  "downloadItem"}

NoLoad ==
    /\ udUrls = FALSE
    /\ udCalls = [f \in LoadFunctions |-> 0]
    /\ udLoading = FALSE
    /\ udError = FALSE

NoSignedFetch ==
    /\ suOp = "none"
    /\ suAuth = ""

InitPL ==
    /\ nItems \in 0..MaxItems
    /\ limit \in 1..MaxLimit
    /\ InitTasks
    /\ NoUpload
    /\ NoDownload
    /\ NoRequest
    /\ NoRetry
    /\ NoExpiryCall
    /\ NoLoad
    /\ NoSignedFetch

NextPL ==
    \/ Call /\ UNCHANGED notPL
    \/ RaceResume /\ UNCHANGED notPL
    \/ RaceThrow /\ UNCHANGED notPL
    \/ AllResolve /\ UNCHANGED notPL
    \/ AllReject /\ UNCHANGED notPL
    \/ \E i \in Items : Start(i) /\ UNCHANGED notPL
    \/ \E i \in Items : \E ok \in BOOLEAN : \E v \in Values :
           Settle(i, ok, v) /\ UNCHANGED notPL

SpecPL == InitPL /\ [][NextPL]_vars

\* ------------------------------------------------- claims on parallelLimit
\* C2: at every instant the number of fn invocations that have started and
\* not yet settled is at most limit.
C2_AtMostLimitInFlight == Cardinality(InFlight) <= limit

\* limit 2 over 5 tasks: two run while a slot has already been reused
C2_Witness ==
    /\ limit = 2 /\ nItems = 5
    /\ Cardinality(InFlight) = 2
    /\ \E i \in Items : task[i] = "ok"

\* C3: with exactly one failing task among N the batch still yields N
\* outcomes (one of them the failure, naming its item).
C3_OneFailureYieldsNOutcomes ==
    (/\ plpc \in {"resolved", "rejected"}
     /\ Cardinality({i \in Items : task[i] = "failed"}) = 1)
        => Len(out) = nItems

\* C4: parallelLimit settles only after every one of the N tasks has been
\* started and has settled.
C4_SettlesAfterWholeBatch ==
    plpc \in {"resolved", "rejected"} => \A i \in Items : Settled(i)

\* C5: when every worker succeeds parallelLimit resolves with an array as
\* long as items whose i-th element is the value fn(items[i]) resolved with.
C5_ResultsInInputOrder ==
    plpc = "resolved" =>
        /\ Len(out) = nItems
        /\ \A i \in Items : out[i] = val[i] /\ val[i] \in Values

\* resolved after the workers completed out of input order, with distinct values
C5_Witness ==
    /\ plpc = "resolved"
    /\ outOfOrder
    /\ nItems >= 3
    /\ out[1] # out[2]

\* ------------------------------------------------------------ DServerClient
\* response.ok
Ok(status) == status \in 200..299

\* request(): switch (response.status) of a non-ok response
ErrorForStatus(status) ==
    CASE status = 401 -> "AuthenticationError"
      [] status = 403 -> "AuthorizationError"
      [] status = 404 -> "NotFoundError"
      [] OTHER        -> "DServerError"

\* request(method, path, body, signal) as getUploadUrls and
\* signalUploadComplete call it: no signal is handed on.
RequestHasSignal == FALSE

\* uploadText(uploadInfo.upload_urls.readme, readme, options.signal)
ReadmePutHasSignal == TRUE

\* the item PUT: fetchImpl(uploadUrl.url, {..., signal: options.signal})
ItemPutHasSignal_Dropped == FALSE

ItemPutHasSignal == TRUE

\* the worker: if (!response.ok) throw new DServerError(...)
WorkerThrows_Never(status) == FALSE

WorkerThrows(status) == ~Ok(status)

\* uploadText: if (!response.ok) throw new DServerError(...)
UploadTextThrows_Never(status) == FALSE

UploadTextThrows(status) == ~Ok(status)

\* one call of fetchImpl that is not rejected at once puts one request on
\* the network; n: the requests of that kind sent before
Sent_Twice(n) == n + 2

Sent(n) == n + 1

\* computeItemMetadata: crypto.subtle.digest("MD5", contentBuffer)
\*   .catch(() => crypto.subtle.digest("SHA-256", contentBuffer))
DigestAlgorithm(available) == IF available THEN "MD5" ELSE "SHA-256"

\* UploadItem.hash: "Hash of the item content (MD5 hex digest)"; the request
\* has no field that names another algorithm
DeclaredAlgorithm == "MD5"

\* sizes[1] + ... + sizes[k]
RECURSIVE SumSizes(_, _)
SumSizes(sizes, k) == IF k = 0 THEN 0 ELSE sizes[k] + SumSizes(sizes, k - 1)

\* const totalBytes = itemsWithMetadata.reduce((sum, item) => sum + item.size_in_bytes, 0)
totalBytes == SumSizes(size, nItems)

\* uploadedBytes += item.size_in_bytes
Added_Overwrites(uploaded, bytes) == bytes

Added(uploaded, bytes) == uploaded + bytes

\* uploadDataset resumes from await client.value.createDataset(...) in the
\* microtask after createDataset settles, that is before the next response
\* is handled: phase = "complete", or phase = "error" and error.value = e,
\* and loading.value = false in the finally.  pc, next: where createDataset
\* stands before and after the step.
UploadDatasetResumes(pc, next) ==
    LET settles == pc \notin {"resolved", "rejected"} /\ next \in {"resolved", "rejected"}
    IN  /\ phase' = IF ~settles THEN phase
                    ELSE IF next = "resolved" THEN "complete" ELSE "error"
        /\ loading' = IF settles THEN FALSE ELSE loading
        /\ uiError' = IF settles /\ next = "rejected" THEN TRUE ELSE uiError

\* generateIdentifier(relpath): the SHA-1 hex digest of the path, taken as
\* a one-to-one function of the path; file i has the i-th path
generateIdentifier(relpath) == <<"sha1", relpath>>

\* const uploadUrl = uploadInfo.upload_urls.items[item.identifier];
\* if (!uploadUrl) throw ...
NoUploadUrl_Ignored(i) == FALSE

NoUploadUrl(i) == ~hasUrl[i]

\* fetch called with a signal that is already aborted rejects with an
\* AbortError and sends nothing.
RejectsAtOnce(hasSignal) == hasSignal /\ aborted

\* ------------------------------------------------------------ createDataset
\* itemsWithMetadata = await Promise.all(files.map(...)) is done; then
\* getUploadUrls(baseUri, {...}) sends its POST.
MetaDone ==
    /\ UNCHANGED <<keyVars, progVars, errItem, errStatus, md5Available>>
    /\ hashAlg' = [i \in Items |-> DigestAlgorithm(md5Available)]
    /\ declaredAlg' = IF RejectsAtOnce(RequestHasSignal) THEN declaredAlg
                                                        ELSE DeclaredAlgorithm
    /\ cderrItem' = 0
    /\ cderrStatus' = 0
    /\ cdpc = "meta"
    /\ IF RejectsAtOnce(RequestHasSignal)
       THEN cdpc' = "rejected" /\ cderr' = "AbortError" /\ sent' = sent
       ELSE cdpc' = "urls" /\ cderr' = cderr
            /\ sent' = [sent EXCEPT !.urls = Sent(@)]
    /\ UNCHANGED <<aborted, hasUrl, readme, putStatus, size, uploadedBytes, puts,
                   abortStage, abortHit, putsAtAbort>>
    /\ UNCHANGED plVars
    /\ UploadDatasetResumes(cdpc, cdpc')

\* The response to the write-URL request; on success uploadText sends the
\* readme PUT.  missing: the items upload_urls.items has no entry for.
UrlsResponse(status, missing) ==
    /\ UNCHANGED <<keyVars, hashVars, progVars, errItem, errStatus>>
    /\ cderrItem' = 0
    /\ cderrStatus' = IF Ok(status) THEN 0 ELSE status
    /\ cdpc = "urls"
    /\ IF ~Ok(status)
       THEN /\ cdpc' = "rejected" /\ cderr' = ErrorForStatus(status)
            /\ UNCHANGED <<hasUrl, readme, sent>>
       ELSE /\ hasUrl' = [i \in Items |-> i \notin missing]
            /\ IF RejectsAtOnce(ReadmePutHasSignal)
               THEN /\ cdpc' = "rejected" /\ cderr' = "AbortError"
                    /\ readme' = "aborted" /\ sent' = sent
               ELSE /\ cdpc' = "readme" /\ cderr' = cderr
                    /\ readme' = "flight"
                    /\ sent' = [sent EXCEPT !.readme = Sent(@)]
    /\ UNCHANGED <<aborted, putStatus, size, uploadedBytes, puts,
                   abortStage, abortHit, putsAtAbort>>
    /\ UNCHANGED plVars
    /\ UploadDatasetResumes(cdpc, cdpc')

\* The response to the readme PUT; on success parallelLimit is called.
ReadmeResponse(status) ==
    /\ UNCHANGED <<keyVars, hashVars, progVars, errItem, errStatus>>
    /\ cderrItem' = 0
    /\ cderrStatus' = IF UploadTextThrows(status) THEN status ELSE 0
    /\ cdpc = "readme"
    /\ readme' = IF Ok(status) THEN "ok" ELSE "failed"
    /\ IF UploadTextThrows(status)
       THEN /\ cdpc' = "rejected" /\ cderr' = "DServerError"
            /\ UNCHANGED <<plpc, nextItem, task, executing, results, plerr>>
       ELSE /\ cdpc' = "items" /\ cderr' = cderr
            /\ EnterLoop
    /\ UNCHANGED <<aborted, hasUrl, putStatus, size, uploadedBytes, sent, puts,
                   abortStage, abortHit, putsAtAbort>>
    /\ UNCHANGED <<nItems, limit, val, out, terr, outOfOrder>>
    /\ UploadDatasetResumes(cdpc, cdpc')

\* The worker starts for item i: it throws when the response lists no URL
\* for the item, else it sends the PUT.
StartPut(i) ==
    /\ task[i] = "queued"
    /\ \A j \in Items : j < i => task[j] # "queued"
    /\ IF NoUploadUrl(i)
       THEN /\ SettleTask(i, FALSE, "none", "DServerError") /\ puts' = puts
            /\ errItem' = [errItem EXCEPT ![i] = i]
            /\ errStatus' = [errStatus EXCEPT ![i] = 500]
            /\ putKey' = putKey
       ELSE IF RejectsAtOnce(ItemPutHasSignal)
            THEN /\ SettleTask(i, FALSE, "none", "AbortError") /\ puts' = puts
                 /\ UNCHANGED <<putKey, errItem, errStatus>>
            ELSE /\ task' = [task EXCEPT ![i] = "active"]
                 /\ puts' = [puts EXCEPT ![i] = Sent(@)]
                 /\ putKey' = [putKey EXCEPT ![i] = generateIdentifier(i)]
                 /\ UNCHANGED <<val, terr, executing, plpc, plerr, outOfOrder>>
                 /\ UNCHANGED <<errItem, errStatus>>
    /\ UNCHANGED <<cderrItem, cderrStatus, hashVars, progVars, uiVars>>
    /\ UNCHANGED <<nItems, limit, nextItem, results, out>>
    /\ UNCHANGED <<cdpc, aborted, hasUrl, readme, putStatus, size, uploadedBytes,
                   cderr, sent, abortStage, abortHit, putsAtAbort>>

\* The response to the PUT of item i: the worker throws on a non-ok status,
\* else adds the item's size to uploadedBytes and returns.
PutResponse(i, status) ==
    /\ cdpc # "none"
    /\ task[i] = "active"
    /\ NoQueued
    /\ putStatus' = [putStatus EXCEPT ![i] = status]
    /\ UNCHANGED <<keyVars, hashVars, cderrItem, cderrStatus, loading, uiError>>
    /\ IF WorkerThrows(status)
       THEN /\ SettleTask(i, FALSE, "none", "DServerError")
            /\ errItem' = [errItem EXCEPT ![i] = i]
            /\ errStatus' = [errStatus EXCEPT ![i] = status]
            /\ uploadedBytes' = uploadedBytes
            /\ cdProgress' = cdProgress
            /\ phase' = phase
       ELSE /\ SettleTask(i, TRUE, "void", "none")
            /\ UNCHANGED <<errItem, errStatus>>
            /\ uploadedBytes' = Added(uploadedBytes, size[i])
            /\ cdProgress' = Append(cdProgress, <<uploadedBytes', totalBytes, i>>)
            /\ phase' = "uploading"
    /\ UNCHANGED <<nItems, limit, nextItem, results, out>>
    /\ UNCHANGED <<cdpc, aborted, hasUrl, readme, size, cderr, sent, puts,
                   abortStage, abortHit, putsAtAbort>>

\* await parallelLimit(...) resolved: signalUploadComplete sends its POST.
ItemsDone ==
    /\ UNCHANGED <<keyVars, errVars, hashVars, progVars>>
    /\ cdpc = "items"
    /\ plpc = "resolved"
    /\ IF RejectsAtOnce(RequestHasSignal)
       THEN cdpc' = "rejected" /\ cderr' = "AbortError" /\ sent' = sent
       ELSE cdpc' = "complete" /\ cderr' = cderr
            /\ sent' = [sent EXCEPT !.complete = Sent(@)]
    /\ UNCHANGED <<aborted, hasUrl, readme, putStatus, size, uploadedBytes, puts,
                   abortStage, abortHit, putsAtAbort>>
    /\ UNCHANGED plVars
    /\ UploadDatasetResumes(cdpc, cdpc')

\* await parallelLimit(...) rejected: createDataset rejects with that error.
ItemsFailed ==
    /\ cdpc = "items"
    /\ plpc = "rejected"
    /\ UNCHANGED <<keyVars, hashVars, progVars, errItem, errStatus>>
    /\ cderrItem' = errItem[plerr]
    /\ cderrStatus' = errStatus[plerr]
    /\ cdpc' = "rejected"
    /\ cderr' = terr[plerr]
    /\ UNCHANGED <<aborted, hasUrl, readme, putStatus, size, uploadedBytes, sent,
                   puts, abortStage, abortHit, putsAtAbort>>
    /\ UNCHANGED plVars
    /\ UploadDatasetResumes(cdpc, cdpc')

\* The response to the upload-complete request.
CompleteResponse(status) ==
    /\ UNCHANGED <<keyVars, hashVars, progVars, errItem, errStatus>>
    /\ cderrItem' = 0
    /\ cderrStatus' = IF Ok(status) THEN 0 ELSE status
    /\ cdpc = "complete"
    /\ IF Ok(status)
       THEN cdpc' = "resolved" /\ cderr' = cderr
       ELSE cdpc' = "rejected" /\ cderr' = ErrorForStatus(status)
    /\ UNCHANGED <<aborted, hasUrl, readme, putStatus, size, uploadedBytes, sent,
                   puts, abortStage, abortHit, putsAtAbort>>
    /\ UNCHANGED plVars
    /\ UploadDatasetResumes(cdpc, cdpc')

\* The requests in flight that were given options.signal
AbortableItems == IF ItemPutHasSignal THEN InFlight ELSE {}

AbortsReadme == ReadmePutHasSignal /\ cdpc = "readme"

AbortsRequest == RequestHasSignal /\ cdpc \in {"urls", "complete"}

\* The caller calls abort() on the controller of options.signal: every
\* fetch in flight that was given the signal rejects with an AbortError.
Abort ==
    /\ UNCHANGED <<keyVars, errVars, hashVars, progVars>>
    /\ cdpc # "none"
    /\ ~aborted
    /\ NoQueued
    /\ aborted' = TRUE
    /\ abortStage' = cdpc
    /\ abortHit' = InFlight
    /\ putsAtAbort' = puts
    /\ task' = [i \in Items |-> IF i \in AbortableItems THEN "failed" ELSE task[i]]
    /\ terr' = [i \in Items |-> IF i \in AbortableItems THEN "AbortError" ELSE terr[i]]
    /\ plpc' = PcAfterSettle(AbortableItems, FALSE)
    /\ plerr' = ErrAfterSettle(AbortableItems, FALSE)
    /\ cdpc' = IF AbortsReadme \/ AbortsRequest THEN "rejected" ELSE cdpc
    /\ cderr' = IF AbortsReadme \/ AbortsRequest THEN "AbortError" ELSE cderr
    /\ readme' = IF AbortsReadme THEN "aborted" ELSE readme
    /\ UNCHANGED <<nItems, limit, nextItem, executing, results, val, out, outOfOrder>>
    /\ UNCHANGED <<hasUrl, putStatus, size, uploadedBytes, sent, puts>>
    /\ UploadDatasetResumes(cdpc, cdpc')

Init ==
    /\ nItems \in 0..MaxFiles
    /\ limit = UploadLimit
    /\ InitTasks
    /\ cdpc = "meta"
    /\ aborted = FALSE
    /\ hasUrl = [i \in 1..nItems |-> TRUE]
    /\ readme = "none"
    /\ putStatus = [i \in 1..nItems |-> 0]
    /\ \E b \in 1..MaxSize : size = [i \in 1..nItems |-> b * i]
    /\ uploadedBytes = 0
    /\ cderr = "none"
    /\ sent = [urls |-> 0, readme |-> 0, complete |-> 0]
    /\ puts = [i \in 1..nItems |-> 0]
    /\ abortStage = "none"
    /\ abortHit = {}
    /\ putsAtAbort = <<>>
    /\ putKey = [i \in 1..nItems |-> "none"]
    /\ errItem = [i \in 1..nItems |-> 0]
    /\ errStatus = [i \in 1..nItems |-> 0]
    /\ cderrItem = 0
    /\ cderrStatus = 0
    /\ md5Available \in BOOLEAN
    /\ hashAlg = [i \in 1..nItems |-> "none"]
    /\ declaredAlg = "none"
    /\ cdProgress = <<>>
    /\ phase = "uploading"
    /\ loading = TRUE
    /\ uiError = FALSE
    /\ NoDownload
    /\ NoRequest
    /\ NoRetry
    /\ NoExpiryCall
    /\ NoLoad
    /\ NoSignedFetch

Next ==
    \/ MetaDone /\ UNCHANGED notCD
    \/ \E status \in Statuses :
         \E missing \in {m \in SUBSET Items : Cardinality(m) <= MaxMissing} :
           UrlsResponse(status, missing) /\ UNCHANGED notCD
    \/ \E status \in PutStatuses : ReadmeResponse(status) /\ UNCHANGED notCD
    \/ \E i \in Items : StartPut(i) /\ UNCHANGED notCD
    \/ \E i \in Items : \E status \in PutStatuses :
           PutResponse(i, status) /\ UNCHANGED notCD
    \/ RaceResume /\ UNCHANGED <<cdVars, cxVars, notCD>>
    \/ RaceThrow /\ UNCHANGED <<cdVars, cxVars, notCD>>
    \/ AllResolve /\ UNCHANGED <<cdVars, cxVars, notCD>>
    \/ AllReject /\ UNCHANGED <<cdVars, cxVars, notCD>>
    \/ ItemsDone /\ UNCHANGED notCD
    \/ ItemsFailed /\ UNCHANGED notCD
    \/ \E status \in Statuses : CompleteResponse(status) /\ UNCHANGED notCD
    \/ Abort /\ UNCHANGED notCD

Spec == Init /\ [][Next]_vars

\* ------------------------------------------------- claims on createDataset
\* C1: the upload-complete request is sent only after the readme PUT and the
\* PUT of every item returned a success response; once an item PUT has
\* failed the request is never sent and createDataset does not resolve.
C1_CompleteOnlyAfterAllPuts ==
    /\ sent.complete > 0 =>
          /\ readme = "ok"
          /\ \A i \in Items : puts[i] > 0 /\ Ok(putStatus[i])
    /\ (\E i \in Items : task[i] = "failed" \/ (putStatus[i] # 0 /\ ~Ok(putStatus[i]))) =>
          /\ sent.complete = 0
          /\ cdpc \notin {"complete", "resolved"}

\* five items uploaded, the completion request answered
C1_Witness ==
    /\ nItems >= 5
    /\ cdpc = "resolved"
    /\ sent.complete = 1

\* C6: at most 4 item PUT requests are in flight at any instant.
C6_AtMostFourPuts == Cardinality(InFlight) <= 4

\* more files than slots: four PUTs in flight, one of them in a reused slot
C6_Witness ==
    /\ nItems >= 5
    /\ Cardinality(InFlight) = 4
    /\ \E i \in Items : task[i] = "ok"

\* C7: whenever the abort signal fires before createDataset has settled,
\* createDataset rejects and does not resolve with a completion record.
C7_AbortAlwaysRejects ==
    abortStage \in {"meta", "urls", "readme", "items", "complete"} => cdpc # "resolved"

C19_ReadmeAfterItems ==
    sent.readme > 0 => \A i \in Items : puts[i] > 0 /\ putStatus[i] # 0

\* C19: an item PUT is issued only after the readme PUT has been answered
\* with success, and the upload-complete signal only after every item PUT
\* has been: the order is the readme PUT, the item PUTs, the signal.
C19_ReadmeThenItemsThenSignal ==
    /\ \A i \in Items : puts[i] > 0 => (readme = "ok" /\ sent.readme = 1)
    /\ sent.complete > 0 =>
           /\ readme = "ok"
           /\ \A i \in Items : puts[i] > 0 /\ Ok(putStatus[i])

\* the readme is stored, the first two item PUTs are out and unanswered
C19_Witness ==
    /\ nItems >= 2
    /\ readme = "ok"
    /\ puts[1] = 1
    /\ puts[2] = 1
    /\ putStatus[1] = 0
    /\ sent.complete = 0

\* C20: nothing is sent twice: getUploadUrls and signalUploadComplete put
\* one request each on the network, the write-URL request is sent exactly
\* once in a createDataset call, and every item is PUT at most once, exactly
\* once when createDataset resolves.
C20_NothingIsRetried ==
    /\ sent.urls = (IF cdpc = "meta" THEN 0 ELSE 1)
    /\ sent.readme <= 1
    /\ sent.complete <= 1
    /\ cdpc \in {"complete", "resolved"} => sent.complete = 1
    /\ \A i \in Items : puts[i] <= 1
    /\ cdpc = "resolved" => \A i \in Items : puts[i] = 1

\* three items uploaded with one request each, createDataset resolved
C20_Witness ==
    /\ nItems = 3
    /\ cdpc = "resolved"
    /\ sent = [urls |-> 1, readme |-> 1, complete |-> 1]
    /\ \A i \in Items : puts[i] = 1

\* C23 as the specification states it: when the write-URL response has no
\* entry for an item, createDataset rejects with an error naming that item.
C23_RejectsNamingTheMissingItem ==
    \A i \in Items :
        (~hasUrl[i] /\ cdpc = "rejected") => cderrItem = i

\* C23: every item is PUT to the URL listed under generateIdentifier of its
\* relpath; an item without an entry is not uploaded, createDataset does not
\* resolve and the upload-complete request is not sent; the item's worker
\* fails with a DServerError of status 500 naming the item, and
\* createDataset rejects with that error when it is the failure that ends
\* parallelLimit.
C23_PutUnderIdentifierOrFail ==
    \A i \in Items :
        /\ puts[i] > 0 => hasUrl[i] /\ putKey[i] = <<"sha1", i>>
        /\ ~hasUrl[i] =>
               /\ puts[i] = 0
               /\ cdpc # "resolved"
               /\ sent.complete = 0
               /\ task[i] = "failed" =>
                      terr[i] = "DServerError" /\ errItem[i] = i /\ errStatus[i] = 500
               /\ (cdpc = "rejected" /\ plerr = i) =>
                      cderr = "DServerError" /\ cderrItem = i /\ cderrStatus = 500

\* the second of three items has no entry: its worker's error ends the
\* upload while the first item's PUT is on the way
C23_Witness ==
    /\ nItems = 3
    /\ ~hasUrl[2]
    /\ puts[1] = 1
    /\ putKey[1] = <<"sha1", 1>>
    /\ puts[2] = 0
    /\ cdpc = "rejected"
    /\ cderrItem = 2
    /\ cderrStatus = 500

\* C24: the hash algorithm declared for the dataset's item hashes equals the
\* algorithm every item's hash was computed with, also when MD5 is not
\* available and SHA-256 is used.
C24_DeclaredIsUsedAlgorithm ==
    declaredAlg # "none" => \A i \in Items : hashAlg[i] = declaredAlg

\* the bytes of the items the first k progress calls name
RECURSIVE SizeOfCalls(_)
SizeOfCalls(k) == IF k = 0 THEN 0 ELSE size[cdProgress[k][3]] + SizeOfCalls(k - 1)

\* C25: the cumulative upload progress loses no update: onProgress is
\* called once per item whose PUT has succeeded, the uploaded value is the
\* sum of the sizes of the items that have succeeded so far, it never
\* decreases and never exceeds the total, and on success the last value
\* is the total.
C25_NoLostProgressUpdate ==
    /\ Len(cdProgress) = Cardinality({i \in Items : task[i] = "ok"})
    /\ \A k \in 1..Len(cdProgress) :
           /\ task[cdProgress[k][3]] = "ok"
           /\ \A j \in 1..Len(cdProgress) : j # k => cdProgress[j][3] # cdProgress[k][3]
           /\ cdProgress[k][1] = SizeOfCalls(k)
           /\ cdProgress[k][2] = totalBytes
           /\ cdProgress[k][1] <= cdProgress[k][2]
           /\ k > 1 => cdProgress[k - 1][1] <= cdProgress[k][1]
    /\ (cdpc = "resolved" /\ nItems > 0) =>
           cdProgress[Len(cdProgress)][1] = totalBytes

\* three items whose PUTs were answered out of order, all reported
C25_Witness ==
    /\ nItems = 3
    /\ cdpc = "resolved"
    /\ Len(cdProgress) = 3
    /\ cdProgress[1][3] = 2
    /\ cdProgress[3][1] = totalBytes

\* C27: in useDatasetUpload, once uploadDataset has rejected, phase is
\* "error" and stays so, with loading false and error set; no progress
\* callback of a sibling item upload that is still running changes it.  Once
\* it has resolved, phase stays "complete".
C27_PhaseStaysSettled ==
    /\ cdpc = "rejected" => (phase = "error" /\ ~loading /\ uiError)
    /\ cdpc = "resolved" => (phase = "complete" /\ ~loading)

\* ------------------------------------------------------------- utilities
\* getCurrentTimestamp(): Math.floor(Date.now() / 1000)
getCurrentTimestamp == nowMs \div 1000

\* parseISOTimestamp(isoString): Math.floor(new Date(isoString).getTime() / 1000)
parseISOTimestamp(ms) == ms \div 1000

\* isExpired(expiryTimestamp): now >= expiry
isExpired(ms) == getCurrentTimestamp >= parseISOTimestamp(ms)

\* Math.max(a, b)
MathMax(a, b) == IF a >= b THEN a ELSE b

\* timeUntilExpiry(expiryTimestamp), of the timestamp that denotes instant ms
timeUntilExpiry_Signed(ms) == parseISOTimestamp(ms) - getCurrentTimestamp

timeUntilExpiry(ms) == MathMax(0, parseISOTimestamp(ms) - getCurrentTimestamp)

\* ------------------------------------------------------------- downloads
\* the error classes that are DServerError or extend it
DServerErrors == {"DServerError", "AuthenticationError", "AuthorizationError",
                  "NotFoundError"}

\* downloadItem: fetchImpl(itemUrl, { signal: options.signal })
DownloadHasSignal_Dropped == FALSE

DownloadHasSignal == TRUE

\* Number(response.headers.get("Content-Length")) || 0
ContentLengthOf(h) == IF h \in {NoHeader, NotANumber} THEN 0 ELSE h

\* the identifiers a caller asks for
Identifiers == {"id1", "id2"}

\* receivedLength += value.length; options.onProgress(receivedLength, ...)
Reported_ChunkOnly(received, len) == len

Reported(received, len) == received + len

\* downloadItem(urls, identifier, options); known: urls.item_urls has the
\* identifier; prog: options.onProgress is given.
DownloadItem(id, known, prog) ==
    /\ dlpc = "idle"
    /\ dlop' = "item"
    /\ dlId' = id
    /\ UNCHANGED <<chunks, dlHeader>>
    /\ onProgress' = prog
    /\ dlStatus' = dlStatus
    /\ dlerrId' = IF known THEN dlerrId ELSE id
    /\ dlerrStatus' = IF known THEN dlerrStatus ELSE 404
    /\ dlHasUrl' = known
    /\ IF ~known
       THEN dlpc' = "rejected" /\ dlerr' = "NotFoundError" /\ dlNet' = dlNet
       ELSE IF DownloadHasSignal /\ dlAborted
            THEN dlpc' = "rejected" /\ dlerr' = "AbortError" /\ dlNet' = dlNet
            ELSE dlpc' = "fetch" /\ dlerr' = dlerr /\ dlNet' = dlNet + 1
    /\ UNCHANGED <<dlAborted, dlN, dlRead, receivedLength, contentLength, progress,
                   bufLen, nowMs, expiryMs, abortMid, readAtAbort, progAtAbort>>

\* downloadManifest(urls), downloadAdminMetadata(urls), downloadReadme(urls):
\* fetchImpl(url), no options.
DownloadDocument(op) ==
    /\ dlpc = "idle"
    /\ UNCHANGED <<chunks, dlHeader, dlId, dlErrVars>>
    /\ dlop' = op
    /\ dlpc' = "fetch"
    /\ dlNet' = dlNet + 1
    /\ UNCHANGED <<onProgress, dlAborted, dlN, dlRead, receivedLength, contentLength,
                   progress, bufLen, dlerr, nowMs, expiryMs, abortMid, readAtAbort,
                   progAtAbort>>

\* the overlay and annotation names a caller asks for
Names == {"name1", "constructor"}

\* the names that every object has from Object.prototype
InheritedNames == {"constructor"}

\* urls.overlay_urls[name], urls.annotation_urls[name], of the object that
\* response.json() made; own: the object has an entry of that name
PropertyOf(name, own) ==
    IF own THEN "url"
    ELSE IF name \in InheritedNames THEN "inherited" ELSE "undefined"

\* downloadOverlay(urls, name), downloadAnnotation(urls, name): a falsy
\* value of the lookup throws NotFoundError, anything else is handed to
\* fetchImpl without options.  parses: fetchImpl makes a URL of a value
\* that is not a string (a browser resolves its text against the page's
\* URL) rather than throwing a TypeError.
DownloadNamed(op, name, own, parses) ==
    /\ dlpc = "idle"
    /\ dlop' = op
    /\ dlId' = name
    /\ dlHasUrl' = own
    /\ dlStatus' = dlStatus
    /\ LET value == PropertyOf(name, own)
       IN  IF value = "undefined"
           THEN /\ dlpc' = "rejected" /\ dlerr' = "NotFoundError"
                /\ dlerrId' = name /\ dlerrStatus' = 404 /\ dlNet' = dlNet
           ELSE IF value = "inherited" /\ ~parses
           THEN /\ dlpc' = "rejected" /\ dlerr' = "TypeError"
                /\ UNCHANGED <<dlerrId, dlerrStatus, dlNet>>
           ELSE /\ dlpc' = "fetch" /\ dlerr' = dlerr /\ dlNet' = dlNet + 1
                /\ UNCHANGED <<dlerrId, dlerrStatus>>
    /\ UNCHANGED <<chunks, dlHeader, onProgress, dlAborted, dlN, dlRead,
                   receivedLength, contentLength, progress, bufLen, nowMs, expiryMs,
                   abortMid, readAtAbort, progAtAbort>>

\* The response arrives: a non-ok status throws a DServerError; an item
\* with onProgress and a body is read chunk by chunk, anything else is
\* left to response.arrayBuffer() / json() / text().  hasBody: response.body
\* is not null; a response without a body delivers no chunk.
FetchResponse(status, n, header, hasBody) ==
    /\ dlpc = "fetch"
    /\ dlHeader' = header
    /\ UNCHANGED <<chunks, dlId, dlerrId, dlHasUrl>>
    /\ dlStatus' = status
    /\ dlerrStatus' = IF Ok(status) THEN dlerrStatus ELSE status
    /\ IF ~Ok(status)
       THEN /\ dlpc' = "rejected" /\ dlerr' = "DServerError"
            /\ UNCHANGED <<dlN, contentLength>>
       ELSE /\ dlN' = IF hasBody THEN n ELSE 0
            /\ dlerr' = dlerr
            /\ IF dlop = "item" /\ onProgress /\ hasBody
               THEN dlpc' = "reading" /\ contentLength' = ContentLengthOf(header)
               ELSE dlpc' = "body" /\ contentLength' = contentLength
    /\ UNCHANGED <<dlop, onProgress, dlAborted, dlRead, receivedLength, progress,
                   bufLen, dlNet, nowMs, expiryMs, abortMid, readAtAbort, progAtAbort>>

\* reader.read() delivers a chunk of len bytes: it is kept, counted and reported.
ReadChunk(len) ==
    /\ dlpc = "reading"
    /\ dlRead < dlN
    /\ dlRead' = dlRead + 1
    /\ chunks' = Append(chunks, len)
    /\ receivedLength' = receivedLength + len
    /\ progress' = Append(progress,
                          <<Reported(receivedLength, len), contentLength, dlId>>)
    /\ UNCHANGED <<dlHeader, dlId, dlErrVars>>
    /\ UNCHANGED <<dlop, dlpc, onProgress, dlAborted, dlN, contentLength, bufLen,
                   dlerr, dlNet, nowMs, expiryMs, abortMid, readAtAbort, progAtAbort>>

\* reader.read() reports done: the chunks are joined and returned.
ReadDone ==
    /\ UNCHANGED <<chunks, dlHeader, dlId, dlErrVars>>
    /\ dlpc = "reading"
    /\ dlRead = dlN
    /\ dlpc' = "resolved"
    /\ bufLen' = receivedLength
    /\ UNCHANGED <<dlop, onProgress, dlAborted, dlN, dlRead, receivedLength,
                   contentLength, progress, dlerr, dlNet, nowMs, expiryMs, abortMid,
                   readAtAbort, progAtAbort>>

\* response.arrayBuffer() / json() / text() consumes a chunk of the body.
BodyChunk(len) ==
    /\ UNCHANGED <<chunks, dlHeader, dlId, dlErrVars>>
    /\ dlpc = "body"
    /\ dlRead < dlN
    /\ dlRead' = dlRead + 1
    /\ receivedLength' = receivedLength + len
    /\ UNCHANGED <<dlop, dlpc, onProgress, dlAborted, dlN, contentLength, progress,
                   bufLen, dlerr, dlNet, nowMs, expiryMs, abortMid, readAtAbort,
                   progAtAbort>>

\* response.arrayBuffer() / json() / text() resolves.
BodyDone ==
    /\ UNCHANGED <<chunks, dlHeader, dlId, dlErrVars>>
    /\ dlpc = "body"
    /\ dlRead = dlN
    /\ dlpc' = "resolved"
    /\ bufLen' = receivedLength
    /\ UNCHANGED <<dlop, onProgress, dlAborted, dlN, dlRead, receivedLength,
                   contentLength, progress, dlerr, dlNet, nowMs, expiryMs, abortMid,
                   readAtAbort, progAtAbort>>

\* the fetch, or the body it delivered, that abort() cancels
DownloadAbortable ==
    /\ dlop = "item"
    /\ DownloadHasSignal
    /\ dlpc \in {"fetch", "reading", "body"}

\* The caller calls abort() on the controller of options.signal: the fetch
\* in flight rejects, or the body being read errors, with an AbortError.
DownloadAbort ==
    /\ UNCHANGED <<chunks, dlHeader, dlId, dlErrVars>>
    /\ dlpc \notin {"none", "resolved", "rejected"}
    /\ ~dlAborted
    /\ dlAborted' = TRUE
    /\ abortMid' = (dlop = "item" /\ dlpc \in {"reading", "body"}
                    /\ 0 < dlRead /\ dlRead < dlN)
    /\ readAtAbort' = dlRead
    /\ progAtAbort' = Len(progress)
    /\ dlpc' = IF DownloadAbortable THEN "rejected" ELSE dlpc
    /\ dlerr' = IF DownloadAbortable THEN "AbortError" ELSE dlerr
    /\ UNCHANGED <<dlop, onProgress, dlN, dlRead, receivedLength, contentLength,
                   progress, bufLen, dlNet, nowMs, expiryMs>>

TimesMs == {k * 500 : k \in 0..MaxHalfSeconds}

InitDL ==
    /\ nItems = 0
    /\ limit = 1
    /\ InitTasks
    /\ NoUpload
    /\ NoRequest
    /\ NoRetry
    /\ NoExpiryCall
    /\ NoLoad
    /\ NoSignedFetch
    /\ dlop = "none"
    /\ dlpc = "idle"
    /\ onProgress = FALSE
    /\ dlAborted = FALSE
    /\ dlN = 0
    /\ dlRead = 0
    /\ receivedLength = 0
    /\ contentLength = 0
    /\ progress = <<>>
    /\ chunks = <<>>
    /\ dlHeader = NoHeader
    /\ dlId = "none"
    /\ bufLen = 0
    /\ dlerr = "none"
    /\ dlStatus = 0
    /\ dlerrId = "none"
    /\ dlerrStatus = 0
    /\ dlHasUrl = TRUE
    /\ dlNet = 0
    /\ nowMs \in TimesMs
    /\ expiryMs \in TimesMs
    /\ abortMid = FALSE
    /\ readAtAbort = 0
    /\ progAtAbort = 0

NextDL ==
    \/ \E id \in Identifiers : \E known \in BOOLEAN : \E prog \in BOOLEAN :
           DownloadItem(id, known, prog) /\ UNCHANGED notDL
    \/ \E op \in {"manifest", "adminMetadata", "readme"} :
           DownloadDocument(op) /\ UNCHANGED notDL
    \/ \E op \in {"overlay", "annotation"} : \E name \in Names :
         \E own \in BOOLEAN : \E parses \in BOOLEAN :
           DownloadNamed(op, name, own, parses) /\ UNCHANGED notDL
    \/ \E status \in PutStatuses : \E n \in 0..MaxChunks : \E header \in Headers :
         \E hasBody \in BOOLEAN :
           FetchResponse(status, n, header, hasBody) /\ UNCHANGED notDL
    \/ \E len \in 1..MaxChunkLen : ReadChunk(len) /\ UNCHANGED notDL
    \/ ReadDone /\ UNCHANGED notDL
    \/ \E len \in 1..MaxChunkLen : BodyChunk(len) /\ UNCHANGED notDL
    \/ BodyDone /\ UNCHANGED notDL
    \/ DownloadAbort /\ UNCHANGED notDL

SpecDL == InitDL /\ [][NextDL]_vars

\* ---------------------------------------------------- claims on downloads
\* C9: when the abort signal fires during downloadItem after k of n chunks
\* (0 < k < n), downloadItem rejects with an AbortError, which is no
\* DServerError, no further chunk is read and onProgress is not called again.
C9_AbortMidDownload ==
    abortMid =>
        /\ dlpc = "rejected"
        /\ dlerr = "AbortError"
        /\ dlerr \notin DServerErrors
        /\ dlRead = readAtAbort
        /\ Len(progress) = progAtAbort

\* cancelled after 1 of 3 chunks, with a progress callback
C9_Witness ==
    /\ abortMid
    /\ onProgress
    /\ dlN = 3
    /\ readAtAbort = 1
    /\ Len(progress) = 1
    /\ dlpc = "rejected"

\* C10: a read against a signed URL set whose expiry has been reached fails
\* with an expired-URL-set error and makes no network call.
C10_ExpiredSetMakesNoCall ==
    (isExpired(expiryMs) /\ dlpc \notin {"none", "idle"}) =>
        /\ dlNet = 0
        /\ dlpc = "rejected"
        /\ dlerr = "ExpiredURLSet"

\* chunks[1] + ... + chunks[k]
RECURSIVE SumTo(_, _)
SumTo(s, k) == IF k = 0 THEN 0 ELSE s[k] + SumTo(s, k - 1)

\* C16: downloadItem with an onProgress callback calls it once after each
\* received chunk, in arrival order, with (bytes received so far, declared
\* total, identifier): the first argument is the sum of the chunk lengths
\* received so far, the second the declared Content-Length or 0 when none
\* is declared, and the returned buffer is as long as the first argument of
\* the last call.
C16_ProgressPerChunk ==
    (dlop = "item" /\ onProgress /\ dlpc \in {"reading", "body", "resolved", "rejected"}) =>
        /\ Len(progress) = dlRead
        /\ \A k \in 1..Len(progress) :
               /\ progress[k][1] = SumTo(chunks, k)
               /\ progress[k][2] = (IF dlHeader >= 0 THEN dlHeader ELSE 0)
               /\ progress[k][3] = dlId
        /\ (dlpc = "resolved" /\ Len(progress) > 0) =>
               bufLen = progress[Len(progress)][1]

\* three chunks of 1, 2 and 1 bytes against a declared length of 4
C16_Witness ==
    /\ dlop = "item"
    /\ onProgress
    /\ dlpc = "resolved"
    /\ chunks = <<1, 2, 1>>
    /\ dlHeader = 4
    /\ Len(progress) = 3
    /\ bufLen = 4

\* C26: a failure of downloadItem carries the identifier of the item that
\* was asked for and, where a response was received, its HTTP status (as a
\* failure of createDataset caused by one item's transfer carries the item's
\* path and status).
C26_FailureNamesItem ==
    (dlop = "item" /\ dlpc = "rejected" /\ dlerr \in DServerErrors) =>
        /\ dlerrId = dlId
        /\ dlStatus # 0 => dlerrStatus = dlStatus

\* C30: downloadItem, downloadOverlay and downloadAnnotation called with an
\* identifier or name that has no URL in the signed URL set reject with
\* NotFoundError and make no network call.
C30_NoUrlIsNotFound ==
    (dlop \in {"item", "overlay", "annotation"} /\ ~dlHasUrl)
        => (dlpc = "rejected" /\ dlerr = "NotFoundError" /\ dlNet = 0)

\* -------------------------------------------- request and searchDatasets
\* The response is the Fetch standard's Response: json() and text() read the
\* body stream, and a body stream that has been read or is being read cannot
\* be read again (the second read rejects with a TypeError).  A response
\* without a body (body === null) reads as the empty string every time.
BodyKinds == {"json", "text", "null"}

SignedUrlOps == {"getDatasetSignedUrls", "getItemSignedUrl", "getUploadUrls",
                 "signalUploadComplete"}

Tokens == {"t1", "t2"}

\* getHeaders(): if (this.token) headers["Authorization"] = `Bearer ${token}`
getHeaders == token

\* a body that json() has read, or is reading, can be read once more: only
\* the body that is null
ReadableTwice(kind) == kind = "null"

\* try { errorBody = await response.json() } catch { errorBody = await
\* response.text() }: the error body, or the TypeError of the second read
ErrorBody(kind) ==
    CASE kind = "json"   -> [thrown |-> FALSE, body |-> "json"]
      [] ReadableTwice(kind) -> [thrown |-> FALSE, body |-> "text"]
      [] OTHER           -> [thrown |-> TRUE, body |-> "none"]

\* switch (response.status) { ... }: the error that is thrown
TypedError(status, body) ==
    CASE status = 401 -> [name |-> "AuthenticationError", status |-> 401, body |-> "none"]
      [] status = 403 -> [name |-> "AuthorizationError", status |-> 403, body |-> "none"]
      [] status = 404 -> [name |-> "NotFoundError", status |-> 404, body |-> "none"]
      [] OTHER        -> [name |-> "DServerError", status |-> status, body |-> body]

\* the whole of if (!response.ok) { ... } of request, and handleErrorResponse
ErrorOfResponse(status, kind) ==
    IF ErrorBody(kind).thrown
    THEN [name |-> "TypeError", status |-> 0, body |-> "none"]
    ELSE TypedError(status, ErrorBody(kind).body)

\* setToken(token)
SetToken(t) ==
    /\ token' = t
    /\ UNCHANGED <<rqop, rqpc, rqAuth, rqStatus, rqKind, rqResult, rqerr,
                   rqUnhandled, rqNet>>

\* One of the four signed-URL methods is called: request(...) sends its
\* fetch with getHeaders().
SignedUrlCall(op) ==
    /\ rqpc = "idle"
    /\ rqop' = op
    /\ rqpc' = "fetch"
    /\ rqAuth' = getHeaders
    /\ rqNet' = Sent(rqNet)
    /\ UNCHANGED <<token, rqStatus, rqKind, rqResult, rqerr, rqUnhandled>>

\* The response to request(...)'s fetch.
RequestResponse(status, kind) ==
    /\ rqpc = "fetch"
    /\ rqop \in SignedUrlOps
    /\ rqStatus' = status
    /\ rqKind' = kind
    /\ IF ~Ok(status)
       THEN rqpc' = "rejected" /\ rqerr' = ErrorOfResponse(status, kind)
            /\ rqResult' = rqResult
       ELSE IF kind = "json"
            THEN rqpc' = "resolved" /\ rqResult' = "json" /\ rqerr' = rqerr
            ELSE rqpc' = "rejected" /\ rqResult' = rqResult
                 /\ rqerr' = [name |-> "SyntaxError", status |-> 0, body |-> "none"]
    /\ UNCHANGED <<token, rqop, rqAuth, rqUnhandled, rqNet>>

\* searchDatasets(query, pagination) is called: it sends its own fetch with
\* getHeaders().
SearchDatasets ==
    /\ rqpc = "idle"
    /\ rqop' = "searchDatasets"
    /\ rqpc' = "fetch"
    /\ rqAuth' = getHeaders
    /\ rqNet' = Sent(rqNet)
    /\ UNCHANGED <<token, rqStatus, rqKind, rqResult, rqerr, rqUnhandled>>

\* const data = await response.json() of searchDatasets; handlerCalled:
\* handleErrorResponse(response) has been called before and has begun to
\* read the body
DataOfResponse(kind, handlerCalled) ==
    IF handlerCalled /\ ~ReadableTwice(kind)
    THEN [thrown |-> "TypeError", data |-> "none"]
    ELSE IF kind = "json"
         THEN [thrown |-> "none", data |-> "json"]
         ELSE [thrown |-> "SyntaxError", data |-> "none"]

\* The response to searchDatasets' fetch.  On a non-success status
\* handleErrorResponse(response) is called and its promise is dropped: what
\* it throws is a rejection nobody handles, and searchDatasets goes on.
SearchResponse(status, kind) ==
    /\ rqpc = "fetch"
    /\ rqop = "searchDatasets"
    /\ rqStatus' = status
    /\ rqKind' = kind
    /\ rqUnhandled' = IF Ok(status) THEN rqUnhandled
                                    ELSE ErrorOfResponse(status, kind)
    /\ LET d == DataOfResponse(kind, ~Ok(status))
       IN  IF d.thrown = "none"
           THEN rqpc' = "resolved" /\ rqResult' = d.data /\ rqerr' = rqerr
           ELSE rqpc' = "rejected" /\ rqResult' = rqResult
                /\ rqerr' = [name |-> d.thrown, status |-> 0, body |-> "none"]
    /\ UNCHANGED <<token, rqop, rqAuth, rqNet>>

\* the methods that fetch from, or PUT to, a signed URL
SignedUrlFetches == {"downloadItem", "downloadManifest", "downloadAdminMetadata",
                     "downloadReadme", "downloadOverlay", "downloadAnnotation",
                     "uploadText", "createDataset"}

\* the headers of the fetch a method sends to its signed URL, as a set of
\* <<name, value>>: the downloads pass no headers; uploadText passes
\* Content-Type: text/plain, and the item PUT of createDataset the item's
\* content type when it has one
SignedUrlHeaders_Bearer(op) ==
    IF getHeaders = "" THEN {} ELSE {<<"Authorization", getHeaders>>}

SignedUrlHeaders(op) ==
    IF op = "uploadText" THEN {<<"Content-Type", "text/plain">>}
    ELSE IF op = "createDataset" THEN {<<"Content-Type", "contentType">>}
    ELSE {}

\* the Authorization header among headers, "" when there is none
Authorization(headers) ==
    IF \E h \in headers : h[1] = "Authorization"
    THEN (CHOOSE h \in headers : h[1] = "Authorization")[2]
    ELSE ""

\* One of the downloads or uploads sends its fetch to a signed URL.
SignedUrlFetch(op) ==
    /\ suOp' = op
    /\ suAuth' = Authorization(SignedUrlHeaders(op))
    /\ UNCHANGED rqVars

InitRQ ==
    /\ nItems = 0
    /\ limit = 1
    /\ InitTasks
    /\ NoUpload
    /\ NoDownload
    /\ NoRetry
    /\ NoExpiryCall
    /\ NoLoad
    /\ NoSignedFetch
    /\ token \in {""} \cup Tokens
    /\ rqop = "none"
    /\ rqpc = "idle"
    /\ rqAuth = ""
    /\ rqStatus = 0
    /\ rqKind = "none"
    /\ rqResult = "none"
    /\ rqerr = NoError
    /\ rqUnhandled = NoError
    /\ rqNet = 0

NextRQ ==
    \/ \E t \in {""} \cup Tokens : SetToken(t) /\ UNCHANGED notRQ
    \/ \E op \in SignedUrlFetches : SignedUrlFetch(op) /\ UNCHANGED notSU
    \/ \E op \in SignedUrlOps : SignedUrlCall(op) /\ UNCHANGED notRQ
    \/ \E status \in Statuses : \E kind \in BodyKinds :
           RequestResponse(status, kind) /\ UNCHANGED notRQ
    \/ SearchDatasets /\ UNCHANGED notRQ
    \/ \E status \in Statuses : \E kind \in BodyKinds :
           SearchResponse(status, kind) /\ UNCHANGED notRQ

SpecRQ == InitRQ /\ [][NextRQ]_vars

\* -------------------------------------------------- claims on the API calls
\* C29: the bearer token goes to the dserver API only: every fetch against
\* a signed URL (the downloads of an item, the manifest, the admin metadata,
\* the readme, an overlay and an annotation; the PUTs of the readme and of
\* an item) carries no Authorization header, whatever setToken calls came
\* before, while every request sent through request() carries the token
\* that the latest setToken gave.
C29_TokenOnlyToTheApi ==
    [][/\ (suOp' # "none" => suAuth' = "")
       /\ (rqNet' # rqNet /\ rqop' \in SignedUrlOps => rqAuth' = token)]_vars

\* a PUT of an item went to its signed URL without Authorization while
\* request() has a call in flight that carries the token t2
C29_Witness ==
    /\ token = "t2"
    /\ suOp = "createDataset"
    /\ suAuth = ""
    /\ rqpc = "fetch"
    /\ rqop \in SignedUrlOps
    /\ rqAuth = "t2"

\* C11: each of getDatasetSignedUrls, getItemSignedUrl, getUploadUrls and
\* signalUploadComplete rejects with AuthenticationError on 401, with
\* AuthorizationError on 403, with NotFoundError on 404 and with a
\* DServerError carrying the status and the response body on any other
\* non-success status, and resolves only on a success status.
C11_TypedErrorPerStatus ==
    (rqop \in SignedUrlOps /\ rqpc \in {"resolved", "rejected"}) =>
        /\ rqpc = "resolved" => (200 <= rqStatus /\ rqStatus <= 299)
        /\ rqStatus = 401 => rqpc = "rejected" /\ rqerr.name = "AuthenticationError"
        /\ rqStatus = 403 => rqpc = "rejected" /\ rqerr.name = "AuthorizationError"
        /\ rqStatus = 404 => rqpc = "rejected" /\ rqerr.name = "NotFoundError"
        /\ rqStatus \notin {401, 403, 404} /\ ~(200 <= rqStatus /\ rqStatus <= 299) =>
               /\ rqpc = "rejected"
               /\ rqerr.name = "DServerError"
               /\ rqerr.status = rqStatus
               /\ rqerr.body \in {"json", "text"}

\* C12: searchDatasets rejects with AuthenticationError on 401, with
\* AuthorizationError on 403, with NotFoundError on 404 and with a
\* DServerError of that status on any other non-success status, and never
\* resolves with a result built from a non-success response.
C12_SearchTypedErrorPerStatus ==
    (rqop = "searchDatasets" /\ rqpc \in {"resolved", "rejected"}) =>
        /\ rqpc = "resolved" => (200 <= rqStatus /\ rqStatus <= 299)
        /\ rqStatus = 401 => rqpc = "rejected" /\ rqerr.name = "AuthenticationError"
        /\ rqStatus = 403 => rqpc = "rejected" /\ rqerr.name = "AuthorizationError"
        /\ rqStatus = 404 => rqpc = "rejected" /\ rqerr.name = "NotFoundError"
        /\ rqStatus \notin {401, 403, 404} /\ ~(200 <= rqStatus /\ rqStatus <= 299) =>
               /\ rqpc = "rejected"
               /\ rqerr.name = "DServerError"
               /\ rqerr.status = rqStatus

\* ---------------------------------------------------------------- withRetry
\* what fn may reject with
FnErrors == {"DServerError", "AuthenticationError"}

\* Math.min(a, b)
MathMin(a, b) == IF a <= b THEN a ELSE b

\* for (...; attempt <= maxRetries; ...)
LoopContinues_OneShort(a) == a < maxRetries

LoopContinues(a) == a <= maxRetries

\* if (attempt < maxRetries) { await delay(currentDelay); ... }
WaitsAfter_Always(a) == a <= maxRetries

WaitsAfter(a) == a < maxRetries

\* lastError = error as Error
Caught_KeepsFirst(last, error) == IF last = "undefined" THEN error ELSE last

Caught(last, error) == error

\* The loop test with attempt = a, and what follows it: the next invocation
\* of fn, or throw lastError with lastError = last.
LoopTest(a, last) ==
    /\ attempt' = a
    /\ IF LoopContinues(a)
       THEN wrpc' = "fn" /\ invocations' = invocations + 1 /\ wrerr' = wrerr
       ELSE wrpc' = "rejected" /\ invocations' = invocations /\ wrerr' = last

\* withRetry(fn, {maxRetries, initialDelay, maxDelay, backoffFactor}) is called.
WithRetry ==
    /\ wrpc = "idle"
    /\ currentDelay' = initialDelay
    /\ LoopTest(0, lastError)
    /\ UNCHANGED <<maxRetries, initialDelay, maxDelay, backoffFactor, lastError,
                   raised, delays, wrResult>>

\* return await fn(): fn's promise fulfils with v.
FnResolves(v) ==
    /\ wrpc = "fn"
    /\ wrpc' = "resolved"
    /\ wrResult' = v
    /\ UNCHANGED <<maxRetries, initialDelay, maxDelay, backoffFactor, attempt,
                   currentDelay, lastError, invocations, raised, delays, wrerr>>

\* catch (error): fn's promise rejects with error.  Below maxRetries the
\* delay(currentDelay) timer is started; at maxRetries the loop ends.
FnRejects(error) ==
    /\ wrpc = "fn"
    /\ raised' = Append(raised, error)
    /\ lastError' = Caught(lastError, error)
    /\ IF WaitsAfter(attempt)
       THEN /\ wrpc' = "delay"
            /\ delays' = Append(delays, currentDelay)
            /\ UNCHANGED <<attempt, invocations, wrerr>>
       ELSE /\ LoopTest(attempt + 1, lastError')
            /\ delays' = delays
    /\ UNCHANGED <<maxRetries, initialDelay, maxDelay, backoffFactor,
                   currentDelay, wrResult>>

\* await delay(currentDelay) is over: currentDelay is raised and capped, and
\* the loop goes on.
DelayDone ==
    /\ wrpc = "delay"
    /\ currentDelay' = MathMin(currentDelay * backoffFactor, maxDelay)
    /\ LoopTest(attempt + 1, lastError)
    /\ UNCHANGED <<maxRetries, initialDelay, maxDelay, backoffFactor, lastError,
                   raised, delays, wrResult>>

InitWR ==
    /\ nItems = 0
    /\ limit = 1
    /\ InitTasks
    /\ NoUpload
    /\ NoDownload
    /\ NoRequest
    /\ NoExpiryCall
    /\ NoLoad
    /\ NoSignedFetch
    /\ maxRetries \in 0..MaxRetries
    /\ initialDelay \in 1..MaxDelay
    /\ maxDelay \in 1..MaxDelay
    /\ backoffFactor \in 1..MaxFactor
    /\ wrpc = "idle"
    /\ attempt = 0
    /\ currentDelay = 0
    /\ lastError = "undefined"
    /\ invocations = 0
    /\ raised = <<>>
    /\ delays = <<>>
    /\ wrResult = "none"
    /\ wrerr = "none"

NextWR ==
    \/ WithRetry /\ UNCHANGED notWR
    \/ \E v \in Values : FnResolves(v) /\ UNCHANGED notWR
    \/ \E error \in FnErrors : FnRejects(error) /\ UNCHANGED notWR
    \/ DelayDone /\ UNCHANGED notWR

SpecWR == InitWR /\ [][NextWR]_vars

\* ---------------------------------------------------- claims on withRetry
\* C13: withRetry with maxRetries = m >= 0 invokes fn until its first
\* success or until m+1 invocations: after k <= m failures and a success it
\* resolves with that value after exactly k+1 invocations, it gives up only
\* after m+1 invocations, and fn is never invoked more than m+1 times.
C13_InvokesUntilSuccessOrLimit ==
    /\ invocations <= maxRetries + 1
    /\ wrpc \in {"fn", "resolved"} => invocations = Len(raised) + 1
    /\ wrpc = "resolved" => wrResult \in Values /\ Len(raised) <= maxRetries
    /\ wrpc = "delay" => invocations = Len(raised)
    /\ wrpc = "rejected" => invocations = maxRetries + 1 /\ Len(raised) = maxRetries + 1

\* maxRetries = 2, two failures and then a success: three invocations
C13_Witness ==
    /\ maxRetries = 2
    /\ Len(raised) = 2
    /\ wrpc = "resolved"
    /\ invocations = 3

\* b to the power e
RECURSIVE Pow(_, _)
Pow(b, e) == IF e = 0 THEN 1 ELSE b * Pow(b, e - 1)

\* C14: the delay waited after the a-th failed attempt (a = 0 for the first)
\* is min(initialDelay * backoffFactor^a, maxDelay); no delay exceeds
\* maxDelay, also when initialDelay > maxDelay.
C14_DelayIsCappedBackoff ==
    \A k \in 1..Len(delays) :
        /\ delays[k] = MathMin(initialDelay * Pow(backoffFactor, k - 1), maxDelay)
        /\ delays[k] <= maxDelay

\* C15: when all maxRetries+1 invocations of fn fail, withRetry rejects with
\* the error the last invocation raised.
C15_RejectsWithLastError ==
    (wrpc = "rejected" /\ Len(raised) = maxRetries + 1) =>
        wrerr = raised[Len(raised)]

\* three failures, the last with another error than the first
C15_Witness ==
    /\ wrpc = "rejected"
    /\ Len(raised) = 3
    /\ raised[1] # raised[3]
    /\ wrerr = raised[3]

\* ------------------------------------------- isExpired and timeUntilExpiry
\* A caller holds a signed URL set whose expiry_timestamp denotes expiryMs
\* and asks, as the clock runs, whether it has expired and how long it
\* still lasts.
ClockMs == {k * 500 : k \in 0..MaxClockHalfSeconds}

\* Date.now() advances.
Tick ==
    /\ nowMs + 500 \in ClockMs
    /\ nowMs' = nowMs + 500
    /\ UNCHANGED <<dlop, dlpc, onProgress, dlAborted, dlN, dlRead, receivedLength,
                   contentLength, progress, chunks, dlHeader, dlId, bufLen, dlerr,
                   dlNet, expiryMs, abortMid, readAtAbort, progAtAbort, dlErrVars>>
    /\ UNCHANGED exVars

\* isExpired(urls.expiry_timestamp)
CallIsExpired ==
    /\ expiredOut' = isExpired(expiryMs)
    /\ expiredAt' = nowMs
    /\ UNCHANGED <<remainingOut, remainingAt>>
    /\ UNCHANGED dlVars

\* timeUntilExpiry(urls.expiry_timestamp)
CallTimeUntilExpiry ==
    /\ remainingOut' = timeUntilExpiry(expiryMs)
    /\ remainingAt' = nowMs
    /\ UNCHANGED <<expiredOut, expiredAt>>
    /\ UNCHANGED dlVars

InitEX ==
    /\ nItems = 0
    /\ limit = 1
    /\ InitTasks
    /\ NoUpload
    /\ NoRequest
    /\ NoRetry
    /\ NoExpiryCall
    /\ NoLoad
    /\ NoSignedFetch
    /\ dlop = "none"
    /\ dlpc = "none"
    /\ onProgress = FALSE
    /\ dlAborted = FALSE
    /\ dlN = 0
    /\ dlRead = 0
    /\ receivedLength = 0
    /\ contentLength = 0
    /\ progress = <<>>
    /\ chunks = <<>>
    /\ dlHeader = NoHeader
    /\ dlId = "none"
    /\ bufLen = 0
    /\ dlerr = "none"
    /\ dlStatus = 0
    /\ dlerrId = "none"
    /\ dlerrStatus = 0
    /\ dlHasUrl = TRUE
    /\ dlNet = 0
    /\ nowMs \in ClockMs
    /\ expiryMs \in ClockMs
    /\ abortMid = FALSE
    /\ readAtAbort = 0
    /\ progAtAbort = 0

notEX == <<plVars, cdVars, cxVars, rqVars, wrVars, udVars, suVars>>

NextEX ==
    \/ Tick /\ UNCHANGED notEX
    \/ CallIsExpired /\ UNCHANGED notEX
    \/ CallTimeUntilExpiry /\ UNCHANGED notEX

SpecEX == InitEX /\ [][NextEX]_vars

C21_OneDelayBetweenInvocations ==
    /\ wrpc \in {"fn", "resolved", "rejected"} => Len(delays) = invocations - 1
    /\ wrpc = "delay" => Len(delays) = invocations /\ invocations <= maxRetries
    /\ (wrpc = "rejected" /\ maxRetries = 0) => delays = <<>>

\* maxRetries = 0 and fn fails: rejected after one invocation, no delay
C21_Witness ==
    /\ maxRetries = 0
    /\ wrpc = "rejected"
    /\ invocations = 1
    /\ Len(raised) = 1
    /\ delays = <<>>

\* the failures that are not transient
NonTransient == {"AuthenticationError", "AuthorizationError", "NotFoundError"}

\* C22: an operation wrapped in withRetry is not invoked again after it
\* fails with a non-transient failure (AuthenticationError,
\* AuthorizationError, NotFoundError): that failure is raised to the caller
\* after that single invocation.
C22_NonTransientIsNotRetried ==
    \A k \in 1..Len(raised) :
        raised[k] \in NonTransient =>
            /\ invocations = k
            /\ wrpc = "rejected"
            /\ wrerr = raised[k]

\* ------------------------------------------------------ useDatasetDownload
\* One of loadDataset, loadManifest, loadAdminMetadata, loadReadme and
\* downloadItem is called.  All but loadDataset throw at once, before they
\* touch loading, when urls.value is not set; else loading.value = true,
\* error.value = null, and the client's request goes out.
LoadCall(f) ==
    /\ udCalls[f] < MaxOverlap
    /\ IF f # "loadDataset" /\ ~udUrls
       THEN UNCHANGED <<udCalls, udLoading, udError>>
       ELSE /\ udCalls' = [udCalls EXCEPT ![f] = @ + 1]
            /\ udLoading' = TRUE
            /\ udError' = FALSE
    /\ UNCHANGED udUrls

\* The client's promise of a call of f settles: the result is stored, or
\* error.value = e in the catch; loading.value = false in the finally.
LoadSettles(f, ok) ==
    /\ udCalls[f] > 0
    /\ udCalls' = [udCalls EXCEPT ![f] = @ - 1]
    /\ udUrls' = (udUrls \/ (f = "loadDataset" /\ ok))
    /\ udError' = (udError \/ ~ok)
    /\ udLoading' = FALSE

InitUD ==
    /\ nItems = 0
    /\ limit = 1
    /\ InitTasks
    /\ NoUpload
    /\ NoDownload
    /\ NoRequest
    /\ NoRetry
    /\ NoExpiryCall
    /\ NoLoad
    /\ NoSignedFetch

NextUD ==
    \/ \E f \in LoadFunctions : LoadCall(f) /\ UNCHANGED notUD
    \/ \E f \in LoadFunctions : \E ok \in BOOLEAN :
           LoadSettles(f, ok) /\ UNCHANGED notUD

SpecUD == InitUD /\ [][NextUD]_vars

\* C28: in one useDatasetDownload instance loading is true whenever at
\* least one of loadDataset, loadManifest, loadAdminMetadata, loadReadme or
\* downloadItem is in flight, and false only when none is.
C28_LoadingWhileInFlight ==
    udLoading <=> (\E f \in LoadFunctions : udCalls[f] > 0)

====
